---- MODULE Spec2Model ----
(***************************************************************************)
(* Model of the company research pipeline: CompanyResearchAgent            *)
(* (research_agent.py) and the batch loop of the Streamlit front end       *)
(* (app.py).                                                               *)
(*                                                                         *)
(* Conventions                                                             *)
(*  - Python str values that the code slices or concatenates (company      *)
(*    names, queries) are sequences of one-character strings.              *)
(*  - Python floats are records [nan, v]; v counts tenths, so 0.3 is 3,    *)
(*    1.0 is 10 and 1.5 is 15.  NaN has nan = TRUE.                        *)
(*  - Opaque texts (page bodies, extracted data, links) are TLA+ strings;  *)
(*    the Python value None in such a position is the token None.          *)
(***************************************************************************)
EXTENDS Integers, Sequences, FiniteSets, TLC

\* ------------------------------------------------------------------ bounds
\* longest list of raw entries the search backend replies with
MaxRaw == 2
\* longest list of companies in an uploaded batch
MaxBatch == 2

\* ------------------------------------------------------- program constants
\* variant of NumResults: twice as many entries are taken
NumResultsTen == 5 * 2
\* search_web(query, num_results = 5)
NumResults == 5
\* profile_results[:3]
TopHits == 3
\* profile_analysis['confidence'] >= 0.3   (tenths)
Threshold == 3
\* len(search_patterns)
NumPatterns == 4

None == "None"
NA == "N/A"

\* ------------------------------------------------------------ Python floats
F(n) == [nan |-> FALSE, v |-> n]
NaN == [nan |-> TRUE, v |-> 0]
Lt(a, b) == ~a.nan /\ ~b.nan /\ a.v < b.v
Ge(a, b) == ~a.nan /\ ~b.nan /\ a.v >= b.v
\* min(a, b): b when b < a, else a
PyMin(a, b) == IF Lt(b, a) THEN b ELSE a
\* max(a, b): b when b > a, else a
PyMax(a, b) == IF Lt(a, b) THEN b ELSE a

\* ------------------------------------------------------------ Python values
\* a company name as handed to the program: a str, None, or an int
StrVal(s) == [t |-> "str", s |-> s]
NoneVal == [t |-> "none", s |-> <<"N", "o", "n", "e">>]
IntVal(d) == [t |-> "int", s |-> <<d>>]
\* bool(x)
Truthy(x) ==
  CASE x.t = "str" -> x.s # <<>>
    [] x.t = "none" -> FALSE
    [] x.t = "int" -> x.s # <<"0">>
IsStr(x) == x.t = "str"

IsSpace(c) == c \in {" ", "\t", "\n"}
RECURSIVE LStrip(_)
LStrip(s) == IF s # <<>> /\ IsSpace(Head(s)) THEN LStrip(Tail(s)) ELSE s
RECURSIVE RStrip(_)
RStrip(s) ==
  IF s # <<>> /\ IsSpace(s[Len(s)]) THEN RStrip(SubSeq(s, 1, Len(s) - 1)) ELSE s
\* str.strip()
Strip(s) == RStrip(LStrip(s))

\* ------------------------------------------------------------- search_web
\* raw entries of the backend's "data" list
RawA == [dict |-> TRUE, url |-> "http://a", title |-> "A", description |-> "snippet a"]
\* an entry whose description is JSON null
RawB == [dict |-> TRUE, url |-> "http://b", title |-> "B", description |-> None]
\* an entry without a url
RawNoUrl == [dict |-> TRUE, url |-> "", title |-> "U", description |-> "snippet u"]
\* an entry that is not a dict: r.get raises AttributeError
RawNotDict == [dict |-> FALSE, url |-> "", title |-> "", description |-> ""]
RawKinds == {RawA, RawB, RawNoUrl, RawNotDict}
RawLists(n) == UNION {[1..k -> RawKinds] : k \in 0..n}

\* what ddg_api.search(query) does: raises, or returns a dict
BackendRaise == [kind |-> "raise", success |-> FALSE, data |-> <<>>]
BackendFail == [kind |-> "reply", success |-> FALSE, data |-> <<>>]
BackendOk(d) == [kind |-> "reply", success |-> TRUE, data |-> d]
BackendReplies == {BackendRaise, BackendFail} \cup {BackendOk(d) : d \in RawLists(MaxRaw)}

\* what trafilatura does for one url:
\*   "raise"  fetch_url or extract raises
\*   "none"   fetch_url returns None
\*   "text"   extract returns the page's main text
\*   "notext" extract returns None
FetchOutcomes == {"raise", "none", "text", "notext"}
PageText == "page text"

\* the entries search_web fetches a page for: those with a url
Fetched(r) == r.dict /\ r.url # ""
FetchChoices(d) ==
  {o \in [1..Len(d) -> FetchOutcomes] : \A i \in 1..Len(d) : ~Fetched(d[i]) => o[i] = "text"}
\* a backend reply together with the outcomes of the fetches it leads to
Calls(replies) == UNION {{<<b, o>> : o \in FetchChoices(b.data)} : b \in replies}

\* lines 30-47: the hits one raw entry contributes
HitOf(r, o) ==
  IF r.url = "" THEN <<>>
  ELSE IF o = "raise"
    THEN <<[title |-> r.title, body |-> r.description, link |-> r.url]>>
  ELSE IF o = "none" THEN <<>>
  ELSE <<[title |-> r.title,
          body |-> IF o = "text" THEN PageText ELSE r.description,
          link |-> r.url]>>

\* lines 29-47: the loop over search_results["data"][:num_results]; an entry
\* that is not a dict makes r.get raise outside the inner try
RECURSIVE FetchLoop(_, _, _, _)
FetchLoop(d, o, i, acc) ==
  IF i > Len(d) \/ i > NumResults THEN acc
  ELSE IF ~d[i].dict THEN [acc EXCEPT !.exc = "AttributeError"]
  ELSE FetchLoop(d, o, i + 1,
         [acc EXCEPT !.hits = acc.hits \o HitOf(d[i], o[i]),
                     !.fetches = acc.fetches + (IF Fetched(d[i]) THEN 1 ELSE 0)])

\* variant of SearchExcept: the exception is raised again
SearchReraise(e, n) == [hits |-> <<>>, fetches |-> n, exc |-> e]
\* lines 51-53: except Exception: return []
SearchExcept(e, n) == [hits |-> <<>>, fetches |-> n, exc |-> ""]

\* lines 16-53: search_web(query); hits is the value returned, fetches the
\* number of fetch_url calls made, exc the exception that leaves the call
SearchWeb(b, o) ==
  IF b.kind = "raise" THEN SearchExcept("RequestError", 0)
  ELSE IF ~b.success THEN [hits |-> <<>>, fetches |-> 0, exc |-> ""]
  ELSE LET r == FetchLoop(b.data, o, 1, [hits |-> <<>>, fetches |-> 0, exc |-> ""])
       IN IF r.exc # "" THEN SearchExcept(r.exc, r.fetches) ELSE r

\* what the backend did, as far as the caller can tell
KindOf(b) ==
  IF b.kind = "raise" THEN "raise"
  ELSE IF ~b.success THEN "fail"
  ELSE IF b.data = <<>> THEN "nomatch"
  ELSE "data"

\* -------------------------------------------------------- analyze_with_gpt
\* the JSON value under 'confidence'
ConfNum(n) == [t |-> "num", v |-> n]
ConfNaN == [t |-> "nan", v |-> 0]
\* an integer literal too large for a double, such as 10**400
ConfBigInt == [t |-> "bigint", v |-> 0]
ConfStr == [t |-> "str", v |-> 0]
ConfNull == [t |-> "null", v |-> 0]
ConfList == [t |-> "list", v |-> 0]
ConfValues ==
  {ConfNum(n) : n \in {-5, 0, 2, 3, 10, 15}}
    \cup {ConfNaN, ConfBigInt, ConfStr, ConfNull, ConfList}

\* what the chat completion does: raises, or answers with a content string
\* that is not JSON, JSON that is not an object, or a JSON object
ServiceRaise == [kind |-> "raise", hasData |-> FALSE, hasConf |-> FALSE, data |-> "", conf |-> ConfNull]
ServiceNotJson == [kind |-> "notjson", hasData |-> FALSE, hasConf |-> FALSE, data |-> "", conf |-> ConfNull]
ServiceNotDict == [kind |-> "notdict", hasData |-> FALSE, hasConf |-> FALSE, data |-> "", conf |-> ConfNull]
ServiceDict(hd, hc, c) ==
  [kind |-> "dict", hasData |-> hd, hasConf |-> hc, data |-> IF hd THEN "extracted" ELSE "", conf |-> c]
ServiceReplies ==
  {ServiceRaise, ServiceNotJson, ServiceNotDict,
   ServiceDict(FALSE, TRUE, ConfNum(9)), ServiceDict(TRUE, FALSE, ConfNull),
   ServiceDict(FALSE, FALSE, ConfNull)}
    \cup {ServiceDict(TRUE, TRUE, c) : c \in ConfValues}
WellFormed(reply) == reply.kind = "dict" /\ reply.hasData /\ reply.hasConf

\* line 94: float(result['confidence'])
Float(c) ==
  CASE c.t = "num" -> [exc |-> "", val |-> F(c.v)]
    [] c.t = "nan" -> [exc |-> "", val |-> NaN]
    [] c.t = "bigint" -> [exc |-> "OverflowError", val |-> NaN]
    [] c.t = "str" -> [exc |-> "ValueError", val |-> NaN]
    [] c.t \in {"null", "list"} -> [exc |-> "TypeError", val |-> NaN]

\* variant of Clamp: the upper bound is forgotten
ClampNoUpper(x) == PyMax(F(0), x)
\* line 95: max(0.0, min(1.0, result['confidence']))
Clamp(x) == PyMax(F(0), PyMin(F(10), x))

\* lines 93-97
Coerce(c) ==
  LET f == Float(c)
  IN IF f.exc = "" THEN [exc |-> "", val |-> Clamp(f.val)]
     ELSE IF f.exc \in {"ValueError", "TypeError"} THEN [exc |-> "", val |-> F(0)]
     ELSE f

\* line 103
AnalysisFailed == [exc |-> "", data |-> "Analysis failed", confidence |-> F(0)]
\* variant of AnalyzeExcept: the exception is raised again
AnalyzeReraise(e) == [exc |-> e, data |-> None, confidence |-> NaN]
\* lines 101-103: except Exception: return the sentinel
AnalyzeExcept(e) == AnalysisFailed

\* lines 59-103: analyze_with_gpt(content, company_name, analysis_type); exc
\* is the exception that leaves the call
AnalyzeWithGpt(r) ==
  IF r.kind = "raise" THEN AnalyzeExcept("APIError")
  ELSE IF r.kind = "notjson" THEN AnalyzeExcept("JSONDecodeError")
  ELSE IF r.kind # "dict" THEN AnalyzeExcept("ValueError")
  ELSE IF ~r.hasData \/ ~r.hasConf THEN AnalyzeExcept("ValueError")
  ELSE LET c == Coerce(r.conf)
       IN IF c.exc # "" THEN AnalyzeExcept(c.exc)
          ELSE [exc |-> "", data |-> r.data, confidence |-> c.val]

\* ------------------------------------------------------ the facet searches
Facets == <<"profile", "sector", "objectives">>
Chars(x) == x.s
Wikipedia == <<" ", "W", "i", "k", "i", "p", "e", "d", "i", "a">>
Company == <<" ", "c", "o", "m", "p", "a", "n", "y">>
About == <<" ", "a", "b", "o", "u", "t">>
Sector == <<" ", "s", "e", "c", "t", "o", "r">>
Industry == <<" ", "i", "n", "d", "u", "s", "t", "r", "y">>
News == <<" ", "n", "e", "w", "s">>
Plans == <<" ", "p", "l", "a", "n", "s">>
Strategy == <<" ", "s", "t", "r", "a", "t", "e", "g", "y">>
Future == <<" ", "f", "u", "t", "u", "r", "e">>
\* f"{company_name} suffix"
Fmt(x, suffix) == StrVal(Chars(x) \o suffix)

\* variant of SearchPatterns: the bare name is tried once more at the end
SearchPatternsExtra(f, x) ==
  CASE f = 1 -> <<x, Fmt(x, Wikipedia), Fmt(x, Company), Fmt(x, About), x>>
    [] f = 2 -> <<Fmt(x, Wikipedia), x, Fmt(x, Sector), Fmt(x, Industry), x>>
    [] f = 3 -> <<Fmt(x, News), Fmt(x, Plans), Fmt(x, Strategy), Fmt(x, Future), x>>
\* lines 109-114, 141-146, 173-178: search_patterns
SearchPatterns(f, x) ==
  CASE f = 1 -> <<x, Fmt(x, Wikipedia), Fmt(x, Company), Fmt(x, About)>>
    [] f = 2 -> <<Fmt(x, Wikipedia), x, Fmt(x, Sector), Fmt(x, Industry)>>
    [] f = 3 -> <<Fmt(x, News), Fmt(x, Plans), Fmt(x, Strategy), Fmt(x, Future)>>

\* the Python value None where a facet result is expected
NoResult == [data |-> None, source |-> None, confidence |-> NaN]

\* variant of NoReliable: the search returns None
NoReliableNone(f) == NoResult
\* lines 131, 163, 195
NoReliable(f) ==
  [data |-> CASE f = 1 -> "No reliable profile information found"
              [] f = 2 -> "No reliable sector information found"
              [] f = 3 -> "No reliable objectives information found",
   source |-> NA, confidence |-> F(0)]
\* lines 135, 167, 199
ErrorRetrieving(f) ==
  [data |-> CASE f = 1 -> "Error retrieving profile"
              [] f = 2 -> "Error retrieving sector information"
              [] f = 3 -> "Error retrieving objectives",
   source |-> NA, confidence |-> F(0)]
\* lines 222-224
NotFound == [data |-> "Not found", source |-> NA, confidence |-> F(0)]

\* variant of FacetExcept: the exception is raised again
FacetReraise(f, e) == [exc |-> e, value |-> NoResult]
\* lines 133-135, 165-167, 197-199: except Exception: return the error response
FacetExcept(f, e) == [exc |-> "", value |-> ErrorRetrieving(f)]

\* lines 119, 151, 183: "\n".join([r['body'] for r in results[:3]]) raises
\* TypeError when a body is None
JoinRaises(h) == \E i \in 1..Len(h) : i <= TopHits /\ h[i].body = None
\* variant of SourceOf: the link of the last hit
SourceOfLast(h) == h[Len(h)].link
\* lines 125, 157, 189: profile_results[0]['link']
SourceOf(h) == h[1].link
\* variant of Accepts: the threshold is 0.0
AcceptsLow(a) == Ge(a.confidence, F(0))
\* variant of Accepts: the threshold is 0.7
AcceptsStrict(a) == Ge(a.confidence, F(7))
\* lines 122, 154, 186
Accepts(a) == Ge(a.confidence, F(Threshold))

VARIABLES
  flow,          \* "idle", "research" (research_company), "batch" (app.py)
                 \* or "search_web" (a search_web call on its own)
  pc,            \* position of the running flow
  arg,           \* the argument of the research_company call
  company_name,  \* the name the facet searches work with
  facet,         \* index in Facets of the running facet search
  tmpl,          \* index in search_patterns of the running query
  query,         \* the query last passed to search_web
  hits,          \* the value search_web last returned
  fetches,       \* fetch_url calls made by the last search_web
  reply,         \* the service's reply to the last analyze_with_gpt
  analysis,      \* the value analyze_with_gpt last returned
  facetRet,      \* the value the facet search returned
  exc,           \* the exception that left the facet search, "" for none
  results,       \* profile_data, sector_data, objectives_data
  outcome,       \* how research_company ended: "", "returned", or the
                 \* exception raised
  returned,      \* the dict research_company returned
  companies,     \* the batch's list of company names
  idx,           \* position of the batch loop in companies
  rows,          \* the batch's results list
  backend,       \* search_web on its own: what the backend replies
  outcomes,      \* search_web on its own: what each page fetch does
  backendKind,   \* what the backend did in the last search_web of a facet
  searchCalls,   \* search_web calls made by the running facet search
  emptyCalls,    \* those of them that returned no hit
  analyzeCalls,  \* analyze_with_gpt calls made by the running facet search
  acceptedAt,    \* first tmpl of the running facet search whose extraction
                 \* had confidence >= 0.3; 0 when there was none yet
  performed,     \* kinds of external call made since the flow was entered
  trace,         \* what research_company did so far: facet searches entered
                 \* and left, waits in between
  waited,        \* time.sleep ran since the last search_web call of the flow
                 \* (TRUE while the flow has made no search_web call)
  counting,      \* whether the run records the totals below
  total          \* search_web, fetch_url and analyze_with_gpt calls made
                 \* since research_company was entered

vars == <<flow, pc, arg, company_name, facet, tmpl, query, hits, fetches, reply,
          analysis, facetRet, exc, results, outcome, returned, companies, idx, rows,
          backend, outcomes, backendKind, searchCalls, emptyCalls, analyzeCalls,
          acceptedAt, performed, trace, waited, counting, total>>

facetVars == <<facet, tmpl, query, hits, fetches, reply, analysis, facetRet, exc,
               backendKind, searchCalls, emptyCalls, analyzeCalls, acceptedAt>>
batchVars == <<companies, idx, rows>>
researchVars == <<arg, outcome, returned>>
countVars == <<counting, total>>
NoCalls == [search |-> 0, fetch |-> 0, analyze |-> 0]
\* total after n more calls of kind k, when the run records totals
Count(k, n) == IF counting THEN [total EXCEPT ![k] = @ + n] ELSE total
searchVars == <<backend, outcomes>>

NoResults == [f \in 1..3 |-> NoResult]
NoAnalysis == [exc |-> "", data |-> None, confidence |-> NaN]

Construct ==
  /\ flow = "idle"
  /\ pc = "idle"
  /\ arg = NoneVal
  /\ company_name = NoneVal
  /\ facet = 1
  /\ tmpl = 1
  /\ query = NoneVal
  /\ hits = <<>>
  /\ fetches = 0
  /\ reply = ServiceRaise
  /\ analysis = NoAnalysis
  /\ facetRet = NoResult
  /\ exc = ""
  /\ results = NoResults
  /\ outcome = ""
  /\ returned = NoResults
  /\ companies = <<>>
  /\ idx = 1
  /\ rows = <<>>
  /\ backend = BackendFail
  /\ outcomes = <<>>
  /\ backendKind = ""
  /\ searchCalls = 0
  /\ emptyCalls = 0
  /\ analyzeCalls = 0
  /\ acceptedAt = 0
  /\ performed = {}
  /\ trace = <<>>
  /\ waited = TRUE
  /\ total = NoCalls

Init == Construct /\ counting = FALSE
\* the same start, with the totals recorded
InitCount == Construct /\ counting = TRUE

\* entering a facet search: search_company_profile / _sector / _objectives
EnterFacet(f) ==
  /\ facet' = f
  /\ tmpl' = 1
  /\ query' = NoneVal
  /\ hits' = <<>>
  /\ fetches' = 0
  /\ reply' = ServiceRaise
  /\ analysis' = NoAnalysis
  /\ facetRet' = NoResult
  /\ exc' = ""
  /\ backendKind' = ""
  /\ searchCalls' = 0
  /\ emptyCalls' = 0
  /\ analyzeCalls' = 0
  /\ acceptedAt' = 0

\* the facet search ends on exception e: its except clause decides what
\* leaves the call
FacetFails(e) ==
  LET h == FacetExcept(facet, e)
  IN /\ facetRet' = h.value
     /\ exc' = h.exc
     /\ pc' = "facet_ret"

\* lines 116-117: the loop takes the next pattern and calls search_web
SearchStep(calls) ==
  /\ pc = "loop"
  /\ \E c \in calls :
       LET b == c[1]
           s == SearchWeb(b, c[2])
       IN /\ hits' = s.hits
          /\ fetches' = s.fetches
          /\ total' = [Count("search", 1) EXCEPT !.fetch = @ + (IF counting THEN s.fetches ELSE 0)]
          /\ backendKind' = KindOf(b)
          /\ emptyCalls' = emptyCalls + (IF s.exc = "" /\ s.hits = <<>> THEN 1 ELSE 0)
          /\ performed' = performed \cup {"search"}
                            \cup (IF s.fetches > 0 THEN {"fetch"} ELSE {})
          /\ IF s.exc # "" THEN FacetFails(s.exc)
             ELSE /\ pc' = "searched"
                  /\ UNCHANGED <<facetRet, exc>>
  /\ query' = SearchPatterns(facet, company_name)[tmpl]
  /\ searchCalls' = searchCalls + 1
  /\ waited' = FALSE
  /\ UNCHANGED <<flow, company_name, facet, tmpl, reply, analysis, results,
                 analyzeCalls, acceptedAt>>
  /\ UNCHANGED <<batchVars, researchVars, searchVars, trace, counting>>

\* lines 118-127: the hits are joined and analysed and the analysis accepted
\* or not
ProcessStep(replies) ==
  /\ pc = "searched"
  /\ IF hits = <<>>
       THEN /\ pc' = "sleep"
            /\ UNCHANGED <<reply, analysis, facetRet, exc, analyzeCalls, acceptedAt,
                           performed, total>>
     ELSE IF JoinRaises(hits)
       THEN /\ FacetFails("TypeError")
            /\ UNCHANGED <<reply, analysis, analyzeCalls, acceptedAt, performed, total>>
     ELSE \E r \in replies :
            LET a == AnalyzeWithGpt(r)
            IN /\ reply' = r
               /\ analysis' = a
               /\ analyzeCalls' = analyzeCalls + 1
               /\ total' = Count("analyze", 1)
               /\ performed' = performed \cup {"analyze"}
               /\ acceptedAt' = IF acceptedAt = 0 /\ a.exc = ""
                                     /\ Ge(a.confidence, F(Threshold))
                                  THEN tmpl ELSE acceptedAt
               /\ IF a.exc # "" THEN FacetFails(a.exc)
                  ELSE IF Accepts(a)
                    THEN /\ facetRet' = [data |-> a.data, source |-> SourceOf(hits),
                                         confidence |-> a.confidence]
                         /\ pc' = "facet_ret"
                         /\ UNCHANGED exc
                    ELSE /\ pc' = "sleep"
                         /\ UNCHANGED <<facetRet, exc>>
  /\ UNCHANGED <<flow, company_name, facet, tmpl, query, hits, fetches, results,
                 backendKind, searchCalls, emptyCalls>>
  /\ UNCHANGED <<batchVars, researchVars, searchVars, trace, waited, counting>>

\* lines 128-131: time.sleep(self.search_delay), then the next pattern or,
\* after the last one, the default response.  The iteration's locals
\* (hits, analysis) are dead from here on and are cleared.
SleepStep ==
  /\ pc = "sleep"
  /\ performed' = performed \cup {"wait"}
  /\ waited' = TRUE
  /\ IF tmpl < Len(SearchPatterns(facet, company_name))
       THEN /\ tmpl' = tmpl + 1
            /\ pc' = "loop"
            /\ UNCHANGED facetRet
       ELSE /\ facetRet' = NoReliable(facet)
            /\ pc' = "facet_ret"
            /\ UNCHANGED tmpl
  /\ hits' = <<>>
  /\ fetches' = 0
  /\ reply' = ServiceRaise
  /\ analysis' = NoAnalysis
  /\ backendKind' = ""
  /\ UNCHANGED <<flow, company_name, facet, query, exc, results, searchCalls, emptyCalls,
                 analyzeCalls, acceptedAt>>
  /\ UNCHANGED <<batchVars, researchVars, searchVars, trace, countVars>>

\* -------------------------------------------------------- research_company
\* the arguments research_company is called with
Args ==
  {StrVal(<<>>), StrVal(<<" ">>), StrVal(<<" ", "A", " ">>), NoneVal, IntVal("0"), IntVal("7")}

\* variant of Invalid: the emptiness test is forgotten
InvalidNotStr(x) == ~IsStr(x)
\* line 205: not company_name or not isinstance(company_name, str)
Invalid(x) == ~Truthy(x) \/ ~IsStr(x)

\* what research_company is seen to do
Enter(f) == [e |-> "enter", f |-> f]
Return(f) == [e |-> "return", f |-> f]
Raise(f) == [e |-> "raise", f |-> f]
Wait == [e |-> "wait", f |-> 0]

\* variant of AfterFacet: no sleep between the facet searches
AfterFacetNoWait(f) == IF f < 3 THEN <<Return(f), Enter(f + 1)>> ELSE <<Return(f)>>
\* lines 213-219: what follows the return of facet search f: the sleep and
\* the next facet search, or nothing more
AfterFacet(f) == IF f < 3 THEN <<Return(f), Wait, Enter(f + 1)>> ELSE <<Return(f)>>
Waits(events) == \E i \in 1..Len(events) : events[i] = Wait

\* lines 221-225
Assemble(res) == [f \in 1..3 |-> IF res[f] # NoResult THEN res[f] ELSE NotFound]

\* lines 201-213: research_company(x) validates, strips and enters the
\* profile search
ResearchCompany ==
  /\ pc \in {"idle", "done"}
  /\ \E x \in Args :
       /\ arg' = x
       /\ IF Invalid(x)
            THEN /\ outcome' = "ValueError"
                 /\ pc' = "done"
                 /\ trace' = <<>>
                 /\ UNCHANGED company_name
            ELSE /\ outcome' = ""
                 /\ pc' = "loop"
                 /\ trace' = <<Enter(1)>>
                 /\ company_name' = StrVal(Strip(x.s))
  /\ flow' = "research"
  /\ returned' = NoResults
  /\ results' = NoResults
  /\ performed' = {}
  /\ waited' = TRUE
  /\ total' = NoCalls
  /\ EnterFacet(1)
  /\ UNCHANGED <<batchVars, searchVars, counting>>

\* lines 213-230: a facet search has ended; research_company sleeps and
\* enters the next one, or assembles and returns the results; an exception
\* that left the facet search is raised again as Exception
ResearchAdvance ==
  /\ flow = "research"
  /\ pc = "facet_ret"
  /\ IF exc # ""
       THEN /\ outcome' = "Exception"
            /\ pc' = "done"
            /\ trace' = Append(trace, Raise(facet))
            /\ UNCHANGED <<results, returned, facetVars, performed, waited>>
     ELSE IF facet < 3
       THEN /\ results' = [results EXCEPT ![facet] = facetRet]
            /\ trace' = trace \o AfterFacet(facet)
            /\ performed' = performed \cup (IF Waits(AfterFacet(facet)) THEN {"wait"} ELSE {})
            /\ waited' = (waited \/ Waits(AfterFacet(facet)))
            /\ EnterFacet(facet + 1)
            /\ pc' = "loop"
            /\ UNCHANGED <<outcome, returned>>
     ELSE /\ results' = [results EXCEPT ![facet] = facetRet]
          /\ returned' = Assemble(results')
          /\ outcome' = "returned"
          /\ pc' = "done"
          /\ trace' = trace \o AfterFacet(facet)
          /\ UNCHANGED <<facetVars, performed, waited>>
  /\ UNCHANGED <<flow, arg, company_name, batchVars, searchVars, countVars>>

\* ------------------------------------------------------ app.py, batch loop
\* the company_name column of the uploaded file
BatchNames == {StrVal(<<"A">>), StrVal(<<>>)}
BatchLists == UNION {[1..k -> BatchNames] : k \in 0..MaxBatch}
\* the collaborators' behaviours explored in the batch flow
BatchBackendReplies == {BackendRaise, BackendOk(<<RawA>>)}
BatchServiceReplies == {ServiceRaise, ServiceDict(TRUE, TRUE, ConfNum(9))}

Cell(v) == [blank |-> FALSE, v |-> v]
Blank == [blank |-> TRUE, v |-> ""]
\* f"{confidence:.0%}"
Percent(c) == [pct |-> c.v * 10]

\* variant of FullRow: the Company column is left out
FullRowNoCompany(c, res) ==
  [Company |-> Blank,
   Profile |-> Cell(res[1].data),
   ProfileConfidence |-> Cell(Percent(res[1].confidence)),
   Sector |-> Cell(res[2].data),
   SectorConfidence |-> Cell(Percent(res[2].confidence)),
   Objectives |-> Cell(res[3].data),
   ObjectivesConfidence |-> Cell(Percent(res[3].confidence)),
   ProfileSource |-> Cell(res[1].source),
   SectorSource |-> Cell(res[2].source),
   ObjectivesSource |-> Cell(res[3].source),
   Error |-> Blank]
\* lines 100-111
FullRow(c, res) ==
  [Company |-> Cell(c),
   Profile |-> Cell(res[1].data),
   ProfileConfidence |-> Cell(Percent(res[1].confidence)),
   Sector |-> Cell(res[2].data),
   SectorConfidence |-> Cell(Percent(res[2].confidence)),
   Objectives |-> Cell(res[3].data),
   ObjectivesConfidence |-> Cell(Percent(res[3].confidence)),
   ProfileSource |-> Cell(res[1].source),
   SectorSource |-> Cell(res[2].source),
   ObjectivesSource |-> Cell(res[3].source),
   Error |-> Blank]
\* lines 113-116
ErrorRow(c, e) ==
  [Company |-> Cell(c), Profile |-> Blank, ProfileConfidence |-> Blank,
   Sector |-> Blank, SectorConfidence |-> Blank, Objectives |-> Blank,
   ObjectivesConfidence |-> Blank, ProfileSource |-> Blank, SectorSource |-> Blank,
   ObjectivesSource |-> Blank, Error |-> Cell(e)]
\* lines 95-116: the try block; .get applied to None raises AttributeError
Row(c, res, e) ==
  IF e # "" THEN ErrorRow(c, e)
  ELSE IF \E f \in 1..3 : res[f] = NoResult THEN ErrorRow(c, "AttributeError")
  ELSE FullRow(c, res)

\* lines 87-91: the button is pressed on an uploaded list
BatchStart ==
  /\ pc \in {"idle", "done"}
  /\ \E l \in BatchLists : companies' = l
  /\ flow' = "batch"
  /\ idx' = 1
  /\ rows' = <<>>
  /\ results' = NoResults
  /\ performed' = {}
  /\ pc' = "batch_loop"
  /\ waited' = TRUE
  /\ UNCHANGED <<company_name, facetVars, researchVars, searchVars, trace, countVars>>

\* lines 93-96 and 119-121: the loop takes the next company and enters its
\* profile search, or ends
BatchCompany ==
  /\ flow = "batch"
  /\ pc = "batch_loop"
  /\ IF idx <= Len(companies)
       THEN /\ company_name' = companies[idx]
            /\ results' = NoResults
            /\ EnterFacet(1)
            /\ pc' = "loop"
       ELSE /\ pc' = "done"
            /\ UNCHANGED <<company_name, results, facetVars>>
  /\ UNCHANGED <<flow, companies, idx, rows, performed, researchVars, searchVars, trace,
                 waited, countVars>>

\* lines 96-117: a facet search has ended; the loop body enters the next one
\* or appends the company's row
BatchAdvance ==
  /\ flow = "batch"
  /\ pc = "facet_ret"
  /\ IF exc = "" /\ facet < 3
       THEN /\ results' = [results EXCEPT ![facet] = facetRet]
            /\ EnterFacet(facet + 1)
            /\ pc' = "loop"
            /\ UNCHANGED <<rows, idx>>
       ELSE /\ results' = IF exc = "" THEN [results EXCEPT ![facet] = facetRet] ELSE results
            /\ rows' = Append(rows, Row(company_name, results', exc))
            /\ idx' = idx + 1
            /\ pc' = "batch_loop"
            /\ UNCHANGED facetVars
  /\ UNCHANGED <<flow, company_name, companies, performed, researchVars, searchVars,
                 trace, waited, countVars>>

\* ------------------------------------------------------ search_web, alone
\* a reply with more entries than num_results
ManyHits == [i \in 1..(NumResults + 1) |-> RawA]
\* a search_web call on its own, for every backend reply and every outcome
\* of the page fetches
InitSearch ==
  /\ flow = "search_web"
  /\ pc = "call"
  /\ backend \in BackendReplies \cup {BackendOk(ManyHits)}
  /\ outcomes \in FetchChoices(backend.data)
  /\ arg = NoneVal
  /\ company_name = NoneVal
  /\ facet = 1
  /\ tmpl = 1
  /\ query = StrVal(<<"A">>)
  /\ hits = <<>>
  /\ fetches = 0
  /\ reply = ServiceRaise
  /\ analysis = NoAnalysis
  /\ facetRet = NoResult
  /\ exc = ""
  /\ results = NoResults
  /\ outcome = ""
  /\ returned = NoResults
  /\ companies = <<>>
  /\ idx = 1
  /\ rows = <<>>
  /\ backendKind = ""
  /\ searchCalls = 0
  /\ emptyCalls = 0
  /\ analyzeCalls = 0
  /\ acceptedAt = 0
  /\ performed = {}
  /\ trace = <<>>
  /\ waited = TRUE
  /\ counting = FALSE
  /\ total = NoCalls

\* lines 16-53: search_web(query) runs to its end
SearchWebRun ==
  /\ flow = "search_web"
  /\ pc = "call"
  /\ LET s == SearchWeb(backend, outcomes)
     IN /\ hits' = s.hits
        /\ fetches' = s.fetches
        /\ exc' = s.exc
  /\ backendKind' = KindOf(backend)
  /\ pc' = "return"
  /\ UNCHANGED <<flow, arg, company_name, facet, tmpl, query, reply, analysis, facetRet,
                 results, outcome, returned, companies, idx, rows, backend, outcomes,
                 searchCalls, emptyCalls, analyzeCalls, acceptedAt, performed, trace,
                 waited, countVars>>

NextSearch == SearchWebRun
SpecSearch == InitSearch /\ [][NextSearch]_vars

\* ---------------------------------------------------------- specifications
SearchWebCall == SearchStep(Calls(BackendReplies))
AnalyzeCall == ProcessStep(ServiceReplies)
Next == ResearchCompany \/ SearchWebCall \/ AnalyzeCall \/ SleepStep \/ ResearchAdvance
Spec == Init /\ [][Next]_vars

BatchSearchWebCall == SearchStep(Calls(BatchBackendReplies))
BatchAnalyzeCall == ProcessStep(BatchServiceReplies)
NextBatch ==
  BatchStart \/ BatchCompany \/ BatchSearchWebCall \/ BatchAnalyzeCall \/ SleepStep
    \/ BatchAdvance
SpecBatch == Init /\ [][NextBatch]_vars

\* research_company with the totals recorded, against collaborators that
\* answer each query with nothing or with more entries than num_results and
\* whose page fetches all succeed or all return None; every step that is
\* due is eventually taken (each external call returns)
LongList == [i \in 1..(NumResults + 1) |-> IF i = 1 THEN RawA ELSE RawB]
CountBackendReplies == {BackendRaise, BackendOk(LongList)}
\* every fetch of a call has the same outcome
CountCalls ==
  {<<b, [i \in 1..Len(b.data) |-> o]>> : b \in CountBackendReplies, o \in {"text", "none"}}
CountServiceReplies == {ServiceRaise, ServiceDict(TRUE, TRUE, ConfNum(9))}
CountSearchWebCall == SearchStep(CountCalls)
CountAnalyzeCall == ProcessStep(CountServiceReplies)
NextCount ==
  ResearchCompany \/ CountSearchWebCall \/ CountAnalyzeCall \/ SleepStep \/ ResearchAdvance
SpecCount == InitCount /\ [][NextCount]_vars /\ WF_vars(NextCount)

\* ------------------------------------------------------------------ claims
InUnit(c) == ~c.nan /\ 0 <= c.v /\ c.v <= 10
ValidArg(x) == x.t = "str" /\ x.s # <<>>

\* C1: the CompanyResult research_company returns for a valid name has all
\* three facets, none of them None, each with a confidence in [0.0, 1.0],
\* whatever the backend, the page fetches and the service did.
C1_FacetsPresentInUnit ==
  outcome = "returned" =>
    /\ DOMAIN returned = 1..3
    /\ \A f \in 1..3 : returned[f] # NoResult /\ InUnit(returned[f].confidence)
\* a result whose last facet was accepted on a reported confidence of 1.5
C1_Witness ==
  /\ outcome = "returned"
  /\ reply = ServiceDict(TRUE, TRUE, ConfNum(15))
  /\ returned[3].confidence = F(10)

\* C2: once an extraction of a facet search has confidence >= 0.3 the facet
\* search has returned: it is in no position to search or analyse again, and
\* the number of search_web calls it made is the index of that template.
C2_ReturnsOnFirstAccept ==
  acceptedAt # 0 =>
    /\ pc \notin {"loop", "searched", "sleep"}
    /\ searchCalls = acceptedAt
    /\ tmpl = acceptedAt
    /\ analyzeCalls <= acceptedAt
\* accepted on the second of four templates
C2_Witness ==
  /\ acceptedAt = 2
  /\ pc = "facet_ret"
  /\ searchCalls = 2
  /\ facetRet.source # NA

\* C3: a research_company call whose name passed validation ends by
\* returning, never by raising, and every facet it returns was either
\* accepted or is a sentinel with source "N/A" and confidence 0.0.
C3_NeverRaisesOnceValid ==
  (flow = "research" /\ pc = "done" /\ ValidArg(arg)) =>
    /\ outcome = "returned"
    /\ \A f \in 1..3 :
         \/ Ge(returned[f].confidence, F(Threshold)) /\ returned[f].source # NA
         \/ /\ returned[f].source = NA
            /\ returned[f].confidence = F(0)
            /\ returned[f].data \in {NoReliable(f).data, ErrorRetrieving(f).data}
\* a result in which one facet failed on an exception and another found nothing
C3_Witness ==
  /\ outcome = "returned"
  /\ returned[1] = ErrorRetrieving(1)
  /\ returned[2] = NoReliable(2)
  /\ Ge(returned[3].confidence, F(Threshold))

\* C4: research_company called with an empty string or a value that is not a
\* string ends with ValueError, and no search, page fetch, service call or
\* wait has been performed by then.
C4_InvalidFailsBeforeAnyCall ==
  (flow = "research" /\ ~ValidArg(arg)) =>
    /\ outcome = "ValueError"
    /\ pc = "done"
    /\ performed = {}
    /\ searchCalls = 0
    /\ analyzeCalls = 0
    /\ fetches = 0
\* the call with the empty string has failed
C4_Witness ==
  /\ flow = "research"
  /\ arg = StrVal(<<>>)
  /\ outcome = "ValueError"

\* C5: a facet search all of whose search_web calls returned no hit returns
\* confidence 0.0 and source "N/A" and has made no analyze_with_gpt call.
C5_AllEmptyGivesSentinel ==
  (pc = "facet_ret" /\ emptyCalls = NumPatterns) =>
    /\ facetRet # NoResult
    /\ facetRet.confidence = F(0)
    /\ facetRet.source = NA
    /\ analyzeCalls = 0
    /\ exc = ""
\* the sector search has returned after four empty searches
C5_Witness ==
  /\ pc = "facet_ret"
  /\ facet = 2
  /\ emptyCalls = NumPatterns
  /\ searchCalls = NumPatterns

\* C6: analyze_with_gpt lets no exception out, and on a failed service call
\* or a reply that is not JSON, not an object, or lacks 'data' or
\* 'confidence' it returns exactly {data: "Analysis failed", confidence: 0.0}.
C6_AnalyzeNeverPropagates ==
  analysis # NoAnalysis =>
    /\ analysis.exc = ""
    /\ ~WellFormed(reply) => analysis = AnalysisFailed
\* the reply lacked the confidence key
C6_Witness ==
  /\ reply = ServiceDict(TRUE, FALSE, ConfNull)
  /\ analysis = AnalysisFailed
  /\ analyzeCalls > 0

\* the confidence C7 expects for a reported value
C7_Expected(c) ==
  CASE c.t = "num" -> IF c.v > 10 THEN 10 ELSE IF c.v < 0 THEN 0 ELSE c.v
    [] c.t = "bigint" -> 10
    [] OTHER -> 0
\* C7: for a reply with 'data' and 'confidence', analyze_with_gpt returns the
\* reported confidence clamped to [0.0, 1.0]: above 1 gives 1.0, below 0
\* gives 0.0, a value in [0, 1] is kept, and a value that is no number
\* ("high", null, a list) gives 0.0.
C7_ConfidenceClamped ==
  (analysis # NoAnalysis /\ WellFormed(reply) /\ reply.conf.t # "nan") =>
    analysis.confidence = F(C7_Expected(reply.conf))

\* C8: for a backend reply made of well-formed entries, every entry among
\* the first num_results that has a url yields a hit in search_web's result,
\* and when its page was not fetched or gave no text the hit's body is the
\* entry's description.
C8_HitSurvivesFetchFailure ==
  (flow = "search_web" /\ pc = "return" /\ backend.kind = "reply" /\ backend.success
     /\ \A i \in 1..Len(backend.data) : backend.data[i].dict) =>
    \A i \in 1..Len(backend.data) :
      (i <= NumResults /\ backend.data[i].url # "") =>
        \E j \in 1..Len(hits) :
          /\ hits[j].link = backend.data[i].url
          /\ outcomes[i] # "text" => hits[j].body = backend.data[i].description

\* C9: search_web lets no exception out; when the backend raises, reports
\* failure or reports no match it returns the empty list, the facet search
\* neither analyses nor returns on it, and after the wait goes on to the next
\* template.
C9_EmptySearchAdvances ==
  /\ [](backendKind \in {"raise", "fail", "nomatch"} =>
          /\ hits = <<>>
          /\ exc = ""
          /\ pc \in {"searched", "sleep"}
          /\ analysis = NoAnalysis
          /\ facetRet = NoResult)
  /\ [][(backendKind \in {"raise", "fail", "nomatch"} /\ pc = "sleep" /\ tmpl < NumPatterns)
          => (pc' = "loop" /\ tmpl' = tmpl + 1 /\ facet' = facet)]_vars
\* the backend raised on the first template and the facet search is about to
\* wait and move on
C9_Witness ==
  /\ backendKind = "raise"
  /\ pc = "sleep"
  /\ tmpl = 1
  /\ hits = <<>>

ErrorOnly(r) ==
  /\ ~r.Error.blank
  /\ r.Profile.blank /\ r.ProfileConfidence.blank /\ r.ProfileSource.blank
  /\ r.Sector.blank /\ r.SectorConfidence.blank /\ r.SectorSource.blank
  /\ r.Objectives.blank /\ r.ObjectivesConfidence.blank /\ r.ObjectivesSource.blank
Full(r) ==
  /\ r.Error.blank
  /\ ~r.Profile.blank /\ ~r.ProfileConfidence.blank /\ ~r.ProfileSource.blank
  /\ ~r.Sector.blank /\ ~r.SectorConfidence.blank /\ ~r.SectorSource.blank
  /\ ~r.Objectives.blank /\ ~r.ObjectivesConfidence.blank /\ ~r.ObjectivesSource.blank
\* C10: when the batch has ended its table has one row per company; the row
\* of a company whose name is the empty string is filled in the Error column
\* only, the row of any other company is a full row.
C10_EmptyNameGivesErrorRow ==
  (flow = "batch" /\ pc = "done") =>
    /\ Len(rows) = Len(companies)
    /\ \A i \in 1..Len(rows) :
         IF companies[i] = StrVal(<<>>) THEN ErrorOnly(rows[i]) ELSE Full(rows[i])

\* C11: the batch loop works on one company at a time, in the order of the
\* list: the rows so far are those of the companies before the current one,
\* each row carries its company and is a full row or an Error row, and when
\* the loop has ended there is one row per company.
C11_OneRowPerCompanyInOrder ==
  flow = "batch" =>
    /\ Len(rows) = idx - 1
    /\ Len(rows) <= Len(companies)
    /\ \A i \in 1..Len(rows) :
         /\ ~rows[i].Company.blank
         /\ rows[i].Company.v = companies[i]
         /\ Full(rows[i]) \/ ErrorOnly(rows[i])
    /\ pc \in {"loop", "searched", "sleep", "facet_ret"} =>
         (idx <= Len(companies) /\ company_name = companies[idx])
    /\ pc = "done" => Len(rows) = Len(companies)
\* a batch of two different companies has ended
C11_Witness ==
  /\ flow = "batch"
  /\ pc = "done"
  /\ Len(companies) = 2
  /\ companies[1] # companies[2]
  /\ Len(rows) = 2

\* the one course of a research_company call that returns
C12_Course ==
  <<Enter(1), Return(1), Wait, Enter(2), Return(2), Wait, Enter(3), Return(3)>>
\* C12: research_company enters the profile, sector and objectives searches
\* once each in that order, each after the one before has returned and a
\* wait has followed, whatever the earlier searches returned.
C12_FacetsInOrderWithWaits ==
  flow = "research" =>
    /\ Len(trace) <= Len(C12_Course)
    /\ trace = SubSeq(C12_Course, 1, Len(trace))
    /\ outcome = "returned" => trace = C12_Course
    /\ pc \in {"loop", "searched", "sleep", "facet_ret"} =>
         (trace # <<>> /\ trace[Len(trace)] = Enter(facet))
\* a call has returned whose profile search found nothing and whose sector
\* search was accepted
C12_Witness ==
  /\ outcome = "returned"
  /\ trace = C12_Course
  /\ returned[1].source = NA
  /\ returned[2].source # NA

\* C13: no search query is sent unless a wait has taken place since the
\* query before it in the same flow.
C13_WaitBetweenQueries ==
  [][searchCalls' = searchCalls + 1 => waited]_vars

\* C14: a research_company call sends at most 4 queries per facet search and
\* at most 12 in all, makes at most one analyze_with_gpt call per query and
\* none for a query that returned no hit, and, every step that is due being
\* taken, comes to its end.
C14_BoundedAndTerminates ==
  /\ [](flow = "research" =>
          /\ searchCalls <= 4
          /\ total.search <= 12
          /\ analyzeCalls + emptyCalls <= searchCalls
          /\ total.analyze <= total.search)
  /\ ((flow = "research" /\ pc # "done") ~> (pc = "done"))
\* a call has returned after all twelve queries
C14_Witness ==
  /\ outcome = "returned"
  /\ total.search = 12
  /\ total.analyze > 0

\* C15 as stated: a query triggers at most 3 page fetches, and a
\* research_company call at most 3 x 4 x 3 = 36.
C15_AtMostThreeFetches ==
  flow = "research" => (fetches <= 3 /\ total.fetch <= 36)
\* C15 as amended: a query triggers at most 5 page fetches (num_results) and
\* one backend search, and a research_company call at most 3 x 4 x 5 = 60
\* page fetches.
C15_AtMostFiveFetches ==
  flow = "research" =>
    /\ fetches <= 5
    /\ total.fetch <= 5 * total.search
    /\ total.fetch <= 60
\* a call has ended after 60 page fetches
C15_Witness ==
  /\ flow = "research"
  /\ pc = "done"
  /\ total.fetch = 60

\* C16: a facet search that ends with no template accepted returns exactly
\* {"No reliable <facet> information found", "N/A", 0.0}.
C16_OnlyNoReliable ==
  (pc = "facet_ret" /\ acceptedAt = 0) =>
    facetRet = [data |-> <<"No reliable profile information found",
                           "No reliable sector information found",
                           "No reliable objectives information found">>[facet],
                source |-> "N/A", confidence |-> F(0)]

\* C17: an accepted facet result has the data and confidence the extractor
\* returned for the accepted query and the link of the first hit of that
\* query's search; with collaborators whose first hit is always http://a and
\* whose only acceptable confidence is 0.9, every accepted facet of the
\* returned result has source http://a and confidence 0.9, and all three
\* have when the first query of each facet was accepted.
C17_AcceptedFromOneAttempt ==
  /\ acceptedAt # 0 =>
       /\ tmpl = acceptedAt
       /\ hits # <<>>
       /\ facetRet.source = hits[1].link
       /\ facetRet.data = analysis.data
       /\ facetRet.confidence = analysis.confidence
  /\ outcome = "returned" =>
       \A f \in 1..3 :
         returned[f].source # NA =>
           (returned[f].source = "http://a" /\ returned[f].confidence = F(9))
  /\ (outcome = "returned" /\ total.search = 3) =>
       \A f \in 1..3 :
         returned[f].source = "http://a" /\ returned[f].confidence = F(9)
\* all three facets were accepted
C17_Witness ==
  /\ outcome = "returned"
  /\ \A f \in 1..3 : returned[f].source = "http://a" /\ returned[f].confidence = F(9)

\* C18: every query research_company passes to search_web is a non-empty
\* string.
C18_QueriesNonEmpty ==
  (flow = "research" /\ searchCalls > 0) => (query.t = "str" /\ query.s # <<>>)

\* C19: a facet search returns either confidence >= 0.3 with the link of one
\* of the hits as source, or confidence 0.0 with source "N/A"; the data is
\* never "Analysis failed".
C19_TwoShapes ==
  pc = "facet_ret" =>
    /\ facetRet # NoResult
    /\ facetRet.data # "Analysis failed"
    /\ \/ /\ Ge(facetRet.confidence, F(3))
          /\ facetRet.source \notin {"N/A", "", None}
          /\ \E i \in 1..Len(hits) : hits[i].link = facetRet.source
       \/ /\ facetRet.confidence = F(0)
          /\ facetRet.source = "N/A"
\* accepted at exactly 0.3 after an extraction that failed
C19_Witness ==
  /\ pc = "facet_ret"
  /\ facetRet.confidence = F(3)
  /\ analyzeCalls = 2
  /\ facetRet.source = "http://b"

====
